---------------------------- MODULE Spec2Model ----------------------------
(***************************************************************************)
(* A model of glyphy (src/src/glyphy/mod.rs): the hex colour parser        *)
(* hex_str_to_rgba / hex_str_to_normalized_rgba and the text layout of     *)
(* Glyphy::render.                                                         *)
(*                                                                         *)
(* Representation.                                                         *)
(*  - A character is a one-token string: "a", "#", ... for ASCII, and      *)
(*    "U+00E9" for a character of two UTF-8 bytes.  A &str is a sequence   *)
(*    of characters; str::len() is its number of BYTES (str_len).          *)
(*  - The f32 channels of hex_str_to_rgba are the integers 0..255 (exact   *)
(*    in f32).  The quotient v / 255.0 is kept as the exact fraction in    *)
(*    lowest terms [num, den]; the f32 the program holds is the float      *)
(*    nearest to it.                                                       *)
(*  - The f32 values of the layout (scales, offsets, positions) are kept   *)
(*    in fixed point with one fractional bit: the integer F32(n) = 2*n     *)
(*    stands for n, and 3 stands for 1.5.  Every value that arises within  *)
(*    the bounds is exactly representable in f32, so the arithmetic below  *)
(*    is the arithmetic of the program.                                    *)
(*  - A panic ends the call (and, in render, the process).                 *)
(***************************************************************************)
EXTENDS Integers, Sequences, FiniteSets, TLC

VARIABLES
    s,             \* the &str handed to the colour parser
    rgba,          \* outcome of hex_str_to_rgba(s)
    normalized,    \* outcome of hex_str_to_normalized_rgba(s)
    pc,            \* position inside Glyphy::render ("idle" between calls)
    calls,         \* number of render calls started
    texts,         \* render's argument texts: Vec<TextRenderable>
    size,          \* render's argument size: (u32, u32)
    clear,         \* render's argument clear: bool
    encoder,       \* the call's command encoder: the commands recorded
    offset_y,      \* local of render
    offset_x,      \* local of render
    max_x,         \* local of render: the reference entry (its index)
    i,             \* position of the for loop over texts
    brush,         \* self.brush: the sections queued and not yet drawn
    staging_belt,  \* self.staging_belt: "idle", "active" or "finished"
    submitted      \* number of command buffers given to queue.submit

vars == <<s, rgba, normalized, pc, calls, texts, size, clear, encoder,
          offset_y, offset_x, max_x, i, brush, staging_belt, submitted>>

parse_vars == <<s, rgba, normalized>>

render_vars == <<pc, calls, texts, size, clear, encoder, offset_y, offset_x,
                 max_x, i, brush, staging_belt, submitted>>

-----------------------------------------------------------------------------
(* Bounds *)

MaxStrLen == 9

MaxEntries == 3

MaxCalls == 2

-----------------------------------------------------------------------------
(* Characters and strings *)

utf8_len(c) == IF c = "U+00E9" THEN 2 ELSE 1

RECURSIVE str_len(_)
str_len(cs) == IF cs = <<>> THEN 0 ELSE utf8_len(Head(cs)) + str_len(Tail(cs))

-----------------------------------------------------------------------------
(* The colour parser *)

HexLen == 6

ChunkSize == 2

Alpha == 255

HexClass ==
    {"a", "b", "c", "d", "e", "f", "A", "B", "C", "D", "E", "F",
     "0", "1", "2", "3", "4", "5", "6", "7", "8", "9"}

re_is_match(str) ==
    \E k \in 1..Len(str) :
        /\ str[k] = "#"
        /\ k + HexLen <= Len(str)
        /\ \A j \in 1..HexLen : str[k + j] \in HexClass

hex_val(c) ==
    CASE c = "0" -> 0  [] c = "1" -> 1  [] c = "2" -> 2  [] c = "3" -> 3
      [] c = "4" -> 4  [] c = "5" -> 5  [] c = "6" -> 6  [] c = "7" -> 7
      [] c = "8" -> 8  [] c = "9" -> 9
      [] c \in {"a", "A"} -> 10  [] c \in {"b", "B"} -> 11
      [] c \in {"c", "C"} -> 12  [] c \in {"d", "D"} -> 13
      [] c \in {"e", "E"} -> 14  [] c \in {"f", "F"} -> 15
      [] OTHER -> -1

RECURSIVE chunks(_, _)
chunks(cs, n) ==
    IF cs = <<>> THEN <<>>
    ELSE IF Len(cs) <= n THEN <<cs>>
    ELSE <<SubSeq(cs, 1, n)>> \o chunks(SubSeq(cs, n + 1, Len(cs)), n)

Ok(v) == [tag |-> "Ok", at |-> "", val |-> v]

Panic(where) == [tag |-> "Panic", at |-> where, val |-> <<>>]

NotCalled == [tag |-> "NotCalled", at |-> "", val |-> <<>>]

\* variant: the two digits of a pair weighted the wrong way round
hex_decode_low_digit_first(chunk) ==
    IF str_len(chunk) % 2 # 0 THEN Panic("decode")
    ELSE IF \E k \in 1..Len(chunk) : hex_val(chunk[k]) < 0 THEN Panic("decode")
    ELSE Ok([k \in 1..(Len(chunk) \div 2) |->
                hex_val(chunk[2 * k - 1]) + 16 * hex_val(chunk[2 * k])])

\* hex::decode of one chunk: Err on an odd number of bytes or on a byte that
\* is no hex digit, else the bytes, most significant digit first.
hex_decode(chunk) ==
    IF str_len(chunk) % 2 # 0 THEN Panic("decode")
    ELSE IF \E k \in 1..Len(chunk) : hex_val(chunk[k]) < 0 THEN Panic("decode")
    ELSE Ok([k \in 1..(Len(chunk) \div 2) |->
                16 * hex_val(chunk[2 * k - 1]) + hex_val(chunk[2 * k])])

hex_str_to_rgba(str) ==
    IF ~re_is_match(str) THEN Panic("format")
    ELSE IF utf8_len(str[1]) # 1 THEN Panic("slice")
    ELSE LET cks == chunks(Tail(str), ChunkSize)
             dec == [k \in 1..Len(cks) |-> hex_decode(cks[k])]
         IN  IF \E k \in 1..Len(cks) : dec[k].tag = "Panic" THEN Panic("decode")
             ELSE Ok(<<dec[1].val[1], dec[2].val[1], dec[3].val[1], Alpha>>)

RECURSIVE Gcd(_, _)
Gcd(a, b) == IF b = 0 THEN a ELSE Gcd(b, a % b)

f32_div(v, d) == [num |-> v \div Gcd(v, d), den |-> d \div Gcd(v, d)]

\* variant: only R, G and B are divided, alpha stays 255
hex_str_to_normalized_rgb_only(str) ==
    LET r == hex_str_to_rgba(str)
    IN  IF r.tag = "Panic" THEN r
        ELSE Ok([k \in 1..4 |-> IF k = 4 THEN [num |-> r.val[k], den |-> 1]
                                         ELSE f32_div(r.val[k], 255)])

hex_str_to_normalized_rgba(str) ==
    LET r == hex_str_to_rgba(str)
    IN  IF r.tag = "Panic" THEN r
        ELSE Ok([k \in 1..4 |-> f32_div(r.val[k], 255)])

-----------------------------------------------------------------------------
(* Inputs of the parser *)

StrAlphabet == {"#", "a", "g"}

HexSample == {"0", "4", "a", "F"}

ExampleStrs ==
    { <<"a", "f", "4", "5", "7", "3">>,
      <<"#", "a", "f", "4", "5", "7">>,
      <<"#", "a", "f", "4", "5", "7", "3", "3">>,
      <<"#", "g", "g", "4", "5", "7", "3">>,
      <<"#", "a", "f", "4", "5", "7", "3">>,
      <<"#", "d", "d", "1", "1", "3", "3">>,
      <<"U+00E9", "#", "a", "a", "a", "a", "a", "a">>,
      <<"#", "a", "a", "a", "a", "a", "a", "U+00E9">>,
      <<"#", "a", "f", "4", "5", "7", "3", "0", "0">> }

StrInputs ==
    (UNION {[1..n -> StrAlphabet] : n \in 0..MaxStrLen})
    \cup {<<"#">> \o d : d \in [1..HexLen -> HexSample]}
    \cup ExampleStrs

-----------------------------------------------------------------------------
(* Glyphy::render *)

F32(n) == 2 * n

ONE_POINT_FIVE == 3

f32_mul(a, b) == (a * b) \div 2

\* Iterator::max_by_key: a fold that keeps the accumulator only when its key
\* is strictly greater, so of several maximal elements the last is returned.
\* 0 stands for None.
RECURSIVE max_by_key_from(_, _, _)
max_by_key_from(ts, best, k) ==
    IF k > Len(ts) THEN best
    ELSE IF str_len(ts[best].text) > str_len(ts[k].text)
         THEN max_by_key_from(ts, best, k + 1)
         ELSE max_by_key_from(ts, k, k + 1)

\* variant: the first of several maximal elements is kept
RECURSIVE max_first_from(_, _, _)
max_first_from(ts, best, k) ==
    IF k > Len(ts) THEN best
    ELSE IF str_len(ts[best].text) >= str_len(ts[k].text)
         THEN max_first_from(ts, best, k + 1)
         ELSE max_first_from(ts, k, k + 1)

max_by_key_first(ts) == IF ts = <<>> THEN 0 ELSE max_first_from(ts, 1, 2)

max_by_key(ts) == IF ts = <<>> THEN 0 ELSE max_by_key_from(ts, 1, 2)

compute_offset_x(t) ==
    f32_mul(f32_mul(t.scale, ONE_POINT_FIVE), F32(str_len(t.text)))

\* variant: each entry is offset by its own estimated width
Section_own_width(t, sz, ox, oy) ==
    [ screen_position |-> <<F32(sz[1]) - compute_offset_x(t), F32(30) + oy>>,
      bounds          |-> <<F32(sz[1]), F32(sz[2])>>,
      text            |-> t.text,
      color           |-> t.color,
      scale           |-> t.scale ]

\* variant: offset_y is advanced before the entry is placed
Section_own_scale(t, sz, ox, oy) ==
    [ screen_position |-> <<F32(sz[1]) - ox, F32(30) + oy + t.scale>>,
      bounds          |-> <<F32(sz[1]), F32(sz[2])>>,
      text            |-> t.text,
      color           |-> t.color,
      scale           |-> t.scale ]

Section(t, sz, ox, oy) ==
    [ screen_position |-> <<F32(sz[1]) - ox, F32(30) + oy>>,
      bounds          |-> <<F32(sz[1]), F32(sz[2])>>,
      text            |-> t.text,
      color           |-> t.color,
      scale           |-> t.scale ]

ClearPass(c) == [cmd |-> "render_pass", load |-> IF c THEN "Clear" ELSE "Load",
                 sections |-> <<>>]

GlyphDraw(q) == [cmd |-> "draw_queued", load |-> "Load", sections |-> q]

-----------------------------------------------------------------------------
(* Inputs of render *)

Str_short == <<"s", "h", "o", "r", "t">>

Str_muchlongertext ==
    <<"m", "u", "c", "h", "l", "o", "n", "g", "e", "r", "t", "e", "x", "t">>

Texts == { <<"a">>, <<"U+00E9">>, <<"a", "a">> }

Scales == {F32(20), F32(30)}

Colors ==
    { hex_str_to_normalized_rgba(<<"#", "a", "f", "4", "5", "7", "3">>).val,
      hex_str_to_normalized_rgba(<<"#", "d", "d", "1", "1", "3", "3">>).val }

Entry_short ==
    [ text  |-> Str_short,
      color |-> hex_str_to_normalized_rgba(<<"#", "a", "f", "4", "5", "7", "3">>).val,
      scale |-> F32(20) ]

Entry_muchlongertext ==
    [ text  |-> Str_muchlongertext,
      color |-> hex_str_to_normalized_rgba(<<"#", "d", "d", "1", "1", "3", "3">>).val,
      scale |-> F32(30) ]

TextRenderable ==
    [text : Texts, color : Colors, scale : Scales]
    \cup {Entry_short, Entry_muchlongertext}

TextVecs == UNION {[1..n -> TextRenderable] : n \in 0..MaxEntries}

Sizes == {<<100, 600>>, <<800, 600>>}

-----------------------------------------------------------------------------
(* Initial states *)

ParserIdle ==
    /\ s = <<>>
    /\ rgba = NotCalled
    /\ normalized = NotCalled

RenderLocalsCleared ==
    /\ texts = <<>>
    /\ size = <<0, 0>>
    /\ clear = FALSE
    /\ encoder = <<>>
    /\ offset_y = 0
    /\ offset_x = 0
    /\ max_x = 0
    /\ i = 0

GlyphyInit ==
    /\ pc = "idle"
    /\ calls = 0
    /\ RenderLocalsCleared
    /\ brush = <<>>
    /\ staging_belt = "idle"
    /\ submitted = 0

Init == ParserIdle /\ GlyphyInit

ParseInit ==
    /\ s \in StrInputs
    /\ rgba = NotCalled
    /\ normalized = NotCalled
    /\ GlyphyInit

-----------------------------------------------------------------------------
(* Actions of the parser *)

CallHexStrToRgba ==
    /\ rgba = NotCalled
    /\ rgba' = hex_str_to_rgba(s)
    /\ UNCHANGED <<s, normalized>>
    /\ UNCHANGED render_vars

CallHexStrToNormalizedRgba ==
    /\ normalized = NotCalled
    /\ normalized' = hex_str_to_normalized_rgba(s)
    /\ UNCHANGED <<s, rgba>>
    /\ UNCHANGED render_vars

ParseNext == CallHexStrToRgba \/ CallHexStrToNormalizedRgba

ParseSpec == ParseInit /\ [][ParseNext]_vars

-----------------------------------------------------------------------------
(* Actions of Glyphy::render, in program order *)

\* The call, create_command_encoder and the clearing render pass.
BeginRender ==
    /\ pc = "idle"
    /\ calls < MaxCalls
    /\ \E ts \in TextVecs, sz \in Sizes, c \in BOOLEAN :
          /\ texts' = ts
          /\ size' = sz
          /\ clear' = c
          /\ encoder' = <<ClearPass(c)>>
    /\ calls' = calls + 1
    /\ pc' = "layout"
    /\ UNCHANGED <<offset_y, offset_x, max_x, i, brush, staging_belt, submitted>>
    /\ UNCHANGED parse_vars

\* variant: an empty texts is laid out as nothing instead of panicking
Layout_empty_is_noop ==
    /\ pc = "layout"
    /\ offset_y' = 0
    /\ max_x' = max_by_key(texts)
    /\ IF max_x' = 0
       THEN /\ pc' = "draw"
            /\ UNCHANGED <<offset_x, i>>
       ELSE /\ offset_x' = compute_offset_x(texts[max_x'])
            /\ i' = 1
            /\ pc' = "queue"
    /\ UNCHANGED <<calls, texts, size, clear, encoder, brush, staging_belt,
                   submitted>>
    /\ UNCHANGED parse_vars

\* let mut offset_y = 0.0; the max_by_key scan, its unwrap, and offset_x.
Layout ==
    /\ pc = "layout"
    /\ offset_y' = 0
    /\ max_x' = max_by_key(texts)
    /\ IF max_x' = 0
       THEN /\ pc' = "panicked"
            /\ UNCHANGED <<offset_x, i>>
       ELSE /\ offset_x' = compute_offset_x(texts[max_x'])
            /\ i' = 1
            /\ pc' = "queue"
    /\ UNCHANGED <<calls, texts, size, clear, encoder, brush, staging_belt,
                   submitted>>
    /\ UNCHANGED parse_vars

\* One iteration of the for loop: brush.queue(Section {..}); offset_y += scale.
QueueSection ==
    /\ pc = "queue"
    /\ i <= Len(texts)
    /\ brush' = Append(brush, Section(texts[i], size, offset_x, offset_y))
    /\ offset_y' = offset_y + texts[i].scale
    /\ i' = i + 1
    /\ pc' = IF i = Len(texts) THEN "draw" ELSE "queue"
    /\ UNCHANGED <<calls, texts, size, clear, encoder, offset_x, max_x,
                   staging_belt, submitted>>
    /\ UNCHANGED parse_vars

\* variant: the drawn sections stay queued for the next call
DrawQueued_keeps_sections ==
    /\ pc = "draw"
    /\ encoder' = Append(encoder, GlyphDraw(brush))
    /\ brush' = brush
    /\ staging_belt' = "active"
    /\ pc' = "submit"
    /\ UNCHANGED <<calls, texts, size, clear, offset_y, offset_x, max_x, i,
                   submitted>>
    /\ UNCHANGED parse_vars

\* brush.draw_queued: the queued sections are drawn into the encoder through
\* the staging belt, and the queue is left empty.
DrawQueued ==
    /\ pc = "draw"
    /\ encoder' = Append(encoder, GlyphDraw(brush))
    /\ brush' = <<>>
    /\ staging_belt' = "active"
    /\ pc' = "submit"
    /\ UNCHANGED <<calls, texts, size, clear, offset_y, offset_x, max_x, i,
                   submitted>>
    /\ UNCHANGED parse_vars

\* staging_belt.finish(); queue.submit(Some(encoder.finish()))
Submit ==
    /\ pc = "submit"
    /\ staging_belt' = "finished"
    /\ submitted' = submitted + 1
    /\ pc' = "recall"
    /\ UNCHANGED <<calls, texts, size, clear, encoder, offset_y, offset_x,
                   max_x, i, brush>>
    /\ UNCHANGED parse_vars

\* spawn(staging_belt.recall()); run_until_stalled(); return: the locals die.
Recall ==
    /\ pc = "recall"
    /\ staging_belt' = "idle"
    /\ pc' = "idle"
    /\ texts' = <<>>
    /\ size' = <<0, 0>>
    /\ clear' = FALSE
    /\ encoder' = <<>>
    /\ offset_y' = 0
    /\ offset_x' = 0
    /\ max_x' = 0
    /\ i' = 0
    /\ UNCHANGED <<calls, brush, submitted>>
    /\ UNCHANGED parse_vars

Next ==
    \/ BeginRender
    \/ Layout
    \/ QueueSection
    \/ DrawQueued
    \/ Submit
    \/ Recall

Spec == Init /\ [][Next]_vars

-----------------------------------------------------------------------------
(* Properties of the parser, stated for ParseSpec *)

LowerDigits ==
    <<"0", "1", "2", "3", "4", "5", "6", "7", "8", "9",
      "a", "b", "c", "d", "e", "f">>

UpperDigits ==
    <<"0", "1", "2", "3", "4", "5", "6", "7", "8", "9",
      "A", "B", "C", "D", "E", "F">>

IsHexDigit(c) == \E k \in 1..16 : c = LowerDigits[k] \/ c = UpperDigits[k]

DigitValue(c) ==
    (CHOOSE k \in 1..16 : c = LowerDigits[k] \/ c = UpperDigits[k]) - 1

\* '#' followed by exactly 6 hex digits and nothing else
ExactFormat(str) ==
    /\ Len(str) = 7
    /\ str[1] = "#"
    /\ \A k \in 2..7 : IsHexDigit(str[k])

Str_af4573 == <<"#", "a", "f", "4", "5", "7", "3">>

\* C1: every string that is not exactly '#' followed by exactly 6 hex digits
\* is rejected: hex_str_to_rgba fails on it and returns no colour.
C1_RejectsEveryMalformed ==
    (rgba.tag # "NotCalled" /\ ~ExactFormat(s)) => rgba.tag = "Panic"

\* C2: for every valid '#' d1..d6, hex_str_to_rgba returns [R, G, B, 255] with
\* R = 16*val(d1)+val(d2), G = 16*val(d3)+val(d4), B = 16*val(d5)+val(d6),
\* each in 0..255; "#af4573" gives [175, 69, 115, 255].
C2_ValidDecodes ==
    (rgba.tag # "NotCalled" /\ ExactFormat(s)) =>
        /\ rgba.tag = "Ok"
        /\ rgba.val = << 16 * DigitValue(s[2]) + DigitValue(s[3]),
                         16 * DigitValue(s[4]) + DigitValue(s[5]),
                         16 * DigitValue(s[6]) + DigitValue(s[7]),
                         255 >>
        /\ \A k \in 1..4 : rgba.val[k] \in 0..255
        /\ (s = Str_af4573 => rgba.val = <<175, 69, 115, 255>>)

C2_Witness ==
    /\ s = Str_af4573
    /\ rgba.tag = "Ok"
    /\ rgba.val = <<175, 69, 115, 255>>

\* C3: hex_str_to_normalized_rgba(s) succeeds exactly when hex_str_to_rgba(s)
\* does, and then every channel is the rgba channel divided by 255, lies in
\* [0, 1], and the alpha channel is 1.
C3_NormalizedIsRgbaOver255 ==
    (rgba.tag # "NotCalled" /\ normalized.tag # "NotCalled") =>
        /\ (normalized.tag = "Ok") <=> (rgba.tag = "Ok")
        /\ normalized.tag = "Ok" =>
              /\ Len(normalized.val) = 4
              /\ \A k \in 1..4 :
                    /\ normalized.val[k].den > 0
                    /\ normalized.val[k].num * 255
                           = rgba.val[k] * normalized.val[k].den
                    /\ 0 <= normalized.val[k].num
                    /\ normalized.val[k].num <= normalized.val[k].den
              /\ normalized.val[4].num = normalized.val[4].den

C3_Witness ==
    /\ s = Str_af4573
    /\ rgba.tag = "Ok"
    /\ normalized.tag = "Ok"
    /\ normalized.val[1] = [num |-> 35, den |-> 51]
    /\ normalized.val[4] = [num |-> 1, den |-> 1]

\* C9: every input that passes the format check is split into exactly 3
\* chunks and every chunk decodes: no panic after the format check.
C9_NoFailureAfterFormatCheck ==
    (rgba.tag # "NotCalled" /\ re_is_match(s)) =>
        /\ Len(chunks(Tail(s), ChunkSize)) = 3
        /\ rgba.tag = "Ok"

-----------------------------------------------------------------------------
(* Properties of Glyphy::render, stated for Spec *)

\* the layout step has run and did not panic; the locals are alive
AfterLayout == pc \in {"queue", "draw", "submit", "recall"}

CharCount(cs) == Len(cs)

AllAscii(ts) == \A k \in 1..Len(ts) : str_len(ts[k].text) = CharCount(ts[k].text)

RECURSIVE SumScales(_, _)
SumScales(ts, n) == IF n = 0 THEN 0 ELSE SumScales(ts, n - 1) + ts[n].scale

\* C4, as claimed: of several entries of maximal text length the reference
\* entry is the first in input order (stated for texts whose byte length
\* is their character count, so that only the tie-break is in question).
C4_FirstOfMaximal ==
    (AfterLayout /\ AllAscii(texts)) =>
        /\ \A k \in 1..Len(texts) :
              CharCount(texts[k].text) <= CharCount(texts[max_x].text)
        /\ \A k \in 1..(max_x - 1) :
              CharCount(texts[k].text) < CharCount(texts[max_x].text)

\* C4, amended: of several entries of maximal text length (str::len) the
\* reference entry is the last in input order, and offset_x is computed from
\* the scale of that entry.
C4_LastOfMaximal ==
    AfterLayout =>
        /\ max_x \in 1..Len(texts)
        /\ \A k \in 1..Len(texts) :
              str_len(texts[k].text) <= str_len(texts[max_x].text)
        /\ \A k \in (max_x + 1)..Len(texts) :
              str_len(texts[k].text) < str_len(texts[max_x].text)
        /\ 2 * offset_x = 3 * texts[max_x].scale * str_len(texts[max_x].text)

C4_Witness ==
    /\ AfterLayout
    /\ \E j \in 1..Len(texts) :
          /\ j < max_x
          /\ str_len(texts[j].text) = str_len(texts[max_x].text)
          /\ texts[j].scale # texts[max_x].scale
          /\ 2 * offset_x # 3 * texts[j].scale * str_len(texts[j].text)

\* C5: for entries e_1..e_n (n > 0) exactly n sections are queued, in input
\* order, and the section of e_k has y = 30 + the sum of the scales of
\* e_1..e_(k-1).
C5_VerticalStack ==
    /\ pc \in {"queue", "draw"} =>
          /\ Len(brush) = i - 1
          /\ \A k \in 1..Len(brush) :
                /\ brush[k].text = texts[k].text
                /\ brush[k].color = texts[k].color
                /\ brush[k].scale = texts[k].scale
                /\ brush[k].screen_position[2] = F32(30) + SumScales(texts, k - 1)
    /\ pc = "draw" => (Len(texts) > 0 /\ Len(brush) = Len(texts))

C5_Witness ==
    /\ pc = "draw"
    /\ Len(brush) = 3
    /\ texts[1].scale = F32(20)
    /\ texts[2].scale = F32(30)
    /\ brush[1].screen_position[2] = F32(30)
    /\ brush[2].screen_position[2] = F32(50)
    /\ brush[3].screen_position[2] = F32(80)

\* C6: every section of one call has the same x = viewport width - offset_x,
\* with offset_x = scale(ref) * 1.5 * length(text(ref)) of the one reference
\* entry; [("short", 20), ("muchlongertext", 30)] gives x = W - 630 twice.
C6_SharedHorizontalOffset ==
    pc \in {"queue", "draw"} =>
        /\ \A k \in 1..Len(brush) :
              2 * (F32(size[1]) - brush[k].screen_position[1])
                 = 3 * texts[max_x].scale * str_len(texts[max_x].text)
        /\ texts = <<Entry_short, Entry_muchlongertext>> =>
              \A k \in 1..Len(brush) :
                  brush[k].screen_position[1] = F32(size[1] - 630)

C6_Witness ==
    /\ pc = "draw"
    /\ texts = <<Entry_short, Entry_muchlongertext>>
    /\ Len(brush) = 2
    /\ brush[1].screen_position[1] = F32(size[1] - 630)
    /\ brush[2].screen_position[1] = F32(size[1] - 630)

\* C7: the length that selects the reference entry and enters offset_x is the
\* number of characters of the text; no entry of fewer characters is the
\* reference while another has more.
C7_LengthIsCharacterCount ==
    AfterLayout =>
        /\ 2 * offset_x = 3 * texts[max_x].scale * CharCount(texts[max_x].text)
        /\ \A k \in 1..Len(texts) :
              CharCount(texts[k].text) <= CharCount(texts[max_x].text)

\* the sections a call queues when it is the first call on a fresh Glyphy:
\* the loop of render run from brush = <<>> and offset_y = 0
RECURSIVE LoopFromFresh(_, _, _, _, _, _)
LoopFromFresh(ts, sz, ox, oy, k, queue) ==
    IF k > Len(ts) THEN queue
    ELSE LoopFromFresh(ts, sz, ox, oy + ts[k].scale, k + 1,
                       Append(queue, Section(ts[k], sz, ox, oy)))

FirstCallPlan(ts, sz) ==
    LoopFromFresh(ts, sz, compute_offset_x(ts[max_by_key(ts)]), 0, 1, <<>>)

\* C8: whatever calls came before, a call with entries E and size W queues,
\* and hands to the draw, the sections the first call on a fresh Glyphy
\* would queue for E and W.
C8_NoHiddenState ==
    /\ pc = "draw" => brush = FirstCallPlan(texts, size)
    /\ pc \in {"submit", "recall"} =>
          encoder = <<ClearPass(clear), GlyphDraw(FirstCallPlan(texts, size))>>

C8_Witness ==
    /\ calls = 2
    /\ pc = "draw"
    /\ Len(brush) = 2
    /\ brush[2].screen_position[2] = F32(30) + texts[1].scale

\* C10: a call with no entries panics at the selection of the widest entry:
\* it queues no section, records no glyph draw, does not finish the staging
\* belt and submits nothing (only the earlier calls have submitted).
C10_EmptyPanicsBeforeAnyWork ==
    (pc \notin {"idle", "layout"} /\ texts = <<>>) =>
        /\ pc = "panicked"
        /\ brush = <<>>
        /\ encoder = <<ClearPass(clear)>>
        /\ staging_belt = "idle"
        /\ submitted = calls - 1

C10_Witness ==
    /\ pc = "panicked"
    /\ texts = <<>>
    /\ calls = 2
    /\ submitted = 1

=============================================================================
